---- MODULE Spec2Model ----
(***************************************************************************)
(* Model of package awsconfigfile (src/awscfg.go): Merge reconciles a list *)
(* of SSO profiles into an ini document.                                   *)
(*                                                                         *)
(* Strings are sequences of tokens.  A token is one character, except for  *)
(* the fixed literals the code concatenates ("profile ", "sso-session ",   *)
(* "granted credential-process --profile ", " --url ") and for opaque      *)
(* values (URLs, account ids, regions) that the code only copies and       *)
(* compares for equality.  The empty string is <<>>.                       *)
(*                                                                         *)
(* The document is the list of the named sections of an ini.File, in file  *)
(* order; a section is its name and its ordered list of key/value pairs.   *)
(***************************************************************************)
EXTENDS Integers, Sequences, FiniteSets, TLC

(***************************************************************************)
(* Strings                                                                 *)
(***************************************************************************)

\* Byte value of the one-character tokens (Go compares strings bytewise).
Code(c) ==
    CASE c = " " -> 32
      [] c = "-" -> 45
      [] c = "." -> 46
      [] c = "/" -> 47
      [] c = ";" -> 59
      [] c = "A" -> 65
      [] c = "B" -> 66
      [] c = "a" -> 97
      [] c = "b" -> 98
      [] c = "p" -> 112
      [] c = "s" -> 115
      [] OTHER -> 120

\* Go's s < t on strings.
RECURSIVE StrLess(_, _)
StrLess(s, t) ==
    IF t = <<>> THEN FALSE
    ELSE IF s = <<>> THEN TRUE
    ELSE IF Code(Head(s)) < Code(Head(t)) THEN TRUE
    ELSE IF Code(Head(s)) > Code(Head(t)) THEN FALSE
    ELSE StrLess(Tail(s), Tail(t))

\* strings.ReplaceAll(accountName, " ", "-")
normalizeAccountName(accountName) ==
    [i \in 1..Len(accountName) |->
        IF accountName[i] = " " THEN "-" ELSE accountName[i]]

\* strings.Join(elems, sep)
RECURSIVE Join(_, _)
Join(elems, sep) ==
    IF elems = <<>> THEN <<>>
    ELSE IF Len(elems) = 1 THEN elems[1]
    ELSE elems[1] \o sep \o Join(Tail(elems), sep)

\* regexp2: the patterns of the model are literals, and MatchString searches
\* the pattern anywhere in the input.
MatchString(pattern, s) ==
    \E i \in 0..(Len(s) - Len(pattern)) :
        \A j \in 1..Len(pattern) : s[i + j] = pattern[j]

(***************************************************************************)
(* The naming template (text/template).  A template is a string whose      *)
(* tokens are literal characters and the actions "{A}" ({{ .AccountName }}),*)
(* "{R}" ({{ .RoleName }}), "{X}" (a field AccountProfile does not have)   *)
(* and "{{" (an action that is never closed).                              *)
(***************************************************************************)

DefaultTemplate == <<"{A}", "/", "{R}">>

\* Parse with its error dropped.
ParseFails_Ignored(templ) == FALSE

\* template.Parse fails on an unclosed action.
ParseFails(templ) == \E i \in 1..Len(templ) : templ[i] = "{{"

\* Template.Execute fails when an action names a missing field.
ExecuteFails(templ) == \E i \in 1..Len(templ) : templ[i] = "{X}"

RECURSIVE Execute(_, _)
Execute(templ, p) ==
    IF templ = <<>> THEN <<>>
    ELSE (CASE Head(templ) = "{A}" -> p.AccountName
            [] Head(templ) = "{R}" -> p.RoleName
            [] OTHER -> <<Head(templ)>>) \o Execute(Tail(templ), p)

(***************************************************************************)
(* The document (gopkg.in/ini.v1, at its interface)                        *)
(***************************************************************************)

SectionNames(cfg) == {cfg[i].name : i \in 1..Len(cfg)}

HasSection(cfg, name) == name \in SectionNames(cfg)

GetSection(cfg, name) ==
    cfg[CHOOSE i \in 1..Len(cfg) : cfg[i].name = name]

HasKey(sec, k) == \E i \in 1..Len(sec.keys) : sec.keys[i].k = k

\* sec.Key(k).String(): the value, "" when the key is absent.
KeyString(sec, k) ==
    IF HasKey(sec, k)
    THEN sec.keys[CHOOSE i \in 1..Len(sec.keys) : sec.keys[i].k = k].v
    ELSE <<>>

DeleteSection(cfg, name) == SelectSeq(cfg, LAMBDA s : s.name # name)

\* NewSection appends an empty section, or returns the one of that name.
NewSection(cfg, name) ==
    IF HasSection(cfg, name) THEN cfg
    ELSE Append(cfg, [name |-> name, keys |-> <<>>])

\* NewSection's only error.
NewSectionFails(name) == name = <<>>

\* ReflectFrom: one key per struct field, in field order; a field tagged
\* omitempty is left out when its value is empty.
ReflectFields(entry) ==
    SelectSeq(entry, LAMBDA f : ~(f.omitempty /\ f.v = <<>>))

ReflectFrom(cfg, name, entry) ==
    LET fields == ReflectFields(entry)
        keys == [j \in 1..Len(fields) |-> [k |-> fields[j].k, v |-> fields[j].v]]
    IN [i \in 1..Len(cfg) |->
            IF cfg[i].name = name THEN [name |-> name, keys |-> keys] ELSE cfg[i]]

\* opts.Config.DeleteSection; NewSection; section.ReflectFrom(entry)
WriteSection(cfg, name, entry) ==
    ReflectFrom(NewSection(DeleteSection(cfg, name), name), name, entry)

Field(k, v, omitempty) == [k |-> k, v |-> v, omitempty |-> omitempty]

(***************************************************************************)
(* Profiles                                                                *)
(***************************************************************************)

SSOSession_ToIni(s) ==
    << Field("sso_start_url", s.SSOStartURL, FALSE),
       Field("sso_registration_scopes", s.SSORegistrationScopes, FALSE),
       Field("sso_region", s.SSORegion, FALSE),
       Field("common_fate_generated_from", s.GeneratedFrom, TRUE) >>

credProcess(a, profileName) ==
    <<"granted credential-process --profile ">> \o profileName
        \o (IF a.CommonFateURL # <<>> THEN <<" --url ">> \o a.CommonFateURL
            ELSE <<>>)

AccountProfile_ToIni(a, profileName, noCredentialProcess) ==
    IF noCredentialProcess
    THEN << Field("sso_session", a.SSOSessionName, FALSE),
            Field("sso_account_id", a.AccountID, FALSE),
            Field("common_fate_generated_from", a.GeneratedFrom, FALSE),
            Field("sso_role_name", a.RoleName, FALSE),
            Field("region", a.Region, TRUE) >>
    ELSE << Field("granted_sso_start_url", a.SSOStartURL, FALSE),
            Field("granted_sso_region", a.SSORegion, TRUE),
            Field("granted_sso_account_id", a.AccountID, FALSE),
            Field("granted_sso_role_name", a.RoleName, FALSE),
            Field("common_fate_generated_from", a.GeneratedFrom, FALSE),
            Field("credential_process", credProcess(a, profileName), FALSE),
            Field("region", a.Region, TRUE) >>

(***************************************************************************)
(* Merge (src/awscfg.go:331-566)                                           *)
(*                                                                         *)
(* opts: Prefix, Profiles, SectionNameTemplate, NoCredentialProcess,       *)
(* PruneStartURLs, SessionName, SSOScopes, PreferRoles, DefaultRegion.     *)
(* The result is the document, the returned error ("" for nil), the        *)
(* warning lines of the duplicate report, the AccountProfiles as the call  *)
(* leaves them (Merge assigns to the caller's objects), in the order the   *)
(* call processes them, and the names the pruning loop deleted.            *)
(***************************************************************************)

IsSession(p) == p.type = "SSOSession"
IsAccount(p) == p.type = "AccountProfile"

\* The type switch returns nil at the first profile of another type.
HasUnsupported(profiles) ==
    \E i \in 1..Len(profiles) : ~IsSession(profiles[i]) /\ ~IsAccount(profiles[i])

CombinedName(a) == a.AccountName \o <<"/">> \o a.RoleName

\* ProfileLess on the normalized AccountName.
ProfileLess_Normalized(a, b) ==
    StrLess(normalizeAccountName(a.AccountName) \o <<"/">> \o a.RoleName,
            normalizeAccountName(b.AccountName) \o <<"/">> \o b.RoleName)

\* The less function given to sort.SliceStable.
ProfileLess(a, b) == StrLess(CombinedName(a), CombinedName(b))

\* sort.SliceStable, as an insertion sort: x goes before the first element
\* that is greater than x, so equal elements keep their input order.
\* InsertProfile putting x before the elements equal to it.
RECURSIVE InsertProfile_BeforeEqual(_, _)
InsertProfile_BeforeEqual(x, sorted) ==
    IF sorted = <<>> THEN <<x>>
    ELSE IF ~ProfileLess(Head(sorted), x) THEN <<x>> \o sorted
    ELSE <<Head(sorted)>> \o InsertProfile_BeforeEqual(x, Tail(sorted))

RECURSIVE InsertProfile(_, _)
InsertProfile(x, sorted) ==
    IF sorted = <<>> THEN <<x>>
    ELSE IF ProfileLess(x, Head(sorted)) THEN <<x>> \o sorted
    ELSE <<Head(sorted)>> \o InsertProfile(x, Tail(sorted))

\* SliceStable leaving the input order.
SliceStable_NoSort(s) == s

RECURSIVE SliceStable(_)
SliceStable(s) ==
    IF s = <<>> THEN <<>>
    ELSE InsertProfile(s[Len(s)], SliceStable(SubSeq(s, 1, Len(s) - 1)))

\* The start URL the pruning loop reads from a section.
SectionStartURL(sec) ==
    IF HasKey(sec, "granted_sso_start_url") THEN KeyString(sec, "granted_sso_start_url")
    ELSE IF HasKey(sec, "sso_start_url") THEN KeyString(sec, "sso_start_url")
    ELSE <<>>

\* IsPruned without the test of the marker.
IsPruned_NoMarker(sec, pruneStartURLs) ==
    \E i \in 1..Len(pruneStartURLs) : SectionStartURL(sec) = pruneStartURLs[i]

\* IsPruned comparing the value of either key.
IsPruned_AnyKey(sec, pruneStartURLs) ==
    \E i \in 1..Len(pruneStartURLs) :
        HasKey(sec, "common_fate_generated_from")
            /\ (KeyString(sec, "granted_sso_start_url") = pruneStartURLs[i]
                \/ KeyString(sec, "sso_start_url") = pruneStartURLs[i])

IsPruned(sec, pruneStartURLs) ==
    \E i \in 1..Len(pruneStartURLs) :
        HasKey(sec, "common_fate_generated_from")
            /\ SectionStartURL(sec) = pruneStartURLs[i]

\* Prune deleting from the list it ranges over: the section after a deleted
\* one is not looked at.
RECURSIVE Prune_SkipAfterDelete(_, _)
Prune_SkipAfterDelete(cfg, pruneStartURLs) ==
    IF cfg = <<>> THEN <<>>
    ELSE IF IsPruned(Head(cfg), pruneStartURLs)
    THEN IF Len(cfg) = 1 THEN <<>>
         ELSE <<cfg[2]>> \o Prune_SkipAfterDelete(Tail(Tail(cfg)), pruneStartURLs)
    ELSE <<Head(cfg)>> \o Prune_SkipAfterDelete(Tail(cfg), pruneStartURLs)

\* for _, sec := range opts.Config.Sections() { ... DeleteSection ... }
Prune(cfg, pruneStartURLs) ==
    SelectSeq(cfg, LAMBDA sec : ~IsPruned(sec, pruneStartURLs))

SessionSection(name) == <<"sso-session ">> \o name
ProfileSection(profileName) == <<"profile ">> \o profileName

\* for _, ssoSession := range ssoSessions { ... }
RECURSIVE WriteSessions(_, _)
WriteSessions(cfg, ssoSessions) ==
    IF ssoSessions = <<>> THEN cfg
    ELSE WriteSessions(
            WriteSection(cfg,
                SessionSection(normalizeAccountName(Head(ssoSessions).SSOSessionName)),
                SSOSession_ToIni(Head(ssoSessions))),
            Tail(ssoSessions))

\* The name of the session the first pass creates.
ImplicitSessionName(opts) ==
    IF opts.Prefix # <<>> THEN normalizeAccountName(opts.Prefix \o opts.SessionName)
    ELSE opts.SessionName

\* First pass over the account profiles (NoCredentialProcess only): st is
\* [cfg, profiles, created]; i is the index of the profile looked at.
\* AssignSessions with the test of createdSessions inverted: no session is
\* ever created.
AssignSessions_InvertedCreated(st, i, opts) == st

\* AssignSessions without the test of createdSessions: every profile
\* without a session name renders the session again.
RECURSIVE AssignSessions_NoCreatedTest(_, _, _)
AssignSessions_NoCreatedTest(st, i, opts) ==
    IF i > Len(st.profiles) THEN st
    ELSE LET a == st.profiles[i]
             sessionName == ImplicitSessionName(opts)
         IN IF a.SSOSessionName # <<>>
            THEN AssignSessions_NoCreatedTest(st, i + 1, opts)
            ELSE AssignSessions_NoCreatedTest(
                    [cfg |-> WriteSection(st.cfg, SessionSection(sessionName),
                                SSOSession_ToIni(
                                    [SSORegistrationScopes |-> Join(opts.SSOScopes, <<" ">>),
                                     SSOSessionName |-> sessionName,
                                     SSOStartURL |-> a.SSOStartURL,
                                     SSORegion |-> a.SSORegion,
                                     GeneratedFrom |-> a.GeneratedFrom])),
                     profiles |-> [st.profiles EXCEPT ![i].SSOSessionName = sessionName],
                     created |-> st.created \cup {sessionName}],
                    i + 1, opts)

RECURSIVE AssignSessions(_, _, _)
AssignSessions(st, i, opts) ==
    IF i > Len(st.profiles) THEN st
    ELSE LET a == st.profiles[i]
             sessionName == ImplicitSessionName(opts)
         IN IF a.SSOSessionName # <<>> THEN AssignSessions(st, i + 1, opts)
            ELSE IF sessionName \in st.created THEN AssignSessions(st, i + 1, opts)
            ELSE AssignSessions(
                    [cfg |-> WriteSection(st.cfg, SessionSection(sessionName),
                                SSOSession_ToIni(
                                    [SSORegistrationScopes |-> Join(opts.SSOScopes, <<" ">>),
                                     SSOSessionName |-> sessionName,
                                     SSOStartURL |-> a.SSOStartURL,
                                     SSORegion |-> a.SSORegion,
                                     GeneratedFrom |-> a.GeneratedFrom])),
                     profiles |-> [st.profiles EXCEPT ![i].SSOSessionName = sessionName],
                     created |-> st.created \cup {sessionName}],
                    i + 1, opts)

\* ImplicitSessions running the first pass in either mode.
ImplicitSessions_AnyMode(cfg, accountProfiles, opts) ==
    AssignSessions([cfg |-> cfg, profiles |-> accountProfiles, created |-> {}],
                   1, opts)

\* if opts.NoCredentialProcess { ... first pass ... }
ImplicitSessions(cfg, accountProfiles, opts) ==
    IF opts.NoCredentialProcess
    THEN AssignSessions([cfg |-> cfg, profiles |-> accountProfiles, created |-> {}],
                        1, opts)
    ELSE [cfg |-> cfg, profiles |-> accountProfiles, created |-> {}]

\* The role a section written earlier in the run holds.
ExistingRoleName(sec) ==
    IF HasKey(sec, "granted_sso_role_name") THEN KeyString(sec, "granted_sso_role_name")
    ELSE KeyString(sec, "sso_role_name")

\* The loop over opts.PreferRoles: the first pattern that matches exactly one
\* of the two roles decides; shouldOverwrite stays true otherwise.
\* ShouldOverwrite ignoring the patterns.
ShouldOverwrite_Always(preferRoles, thisRoleName, existingRoleName) == TRUE

\* ShouldOverwrite keeping the existing role when no pattern tells the two
\* roles apart.
RECURSIVE ShouldOverwrite_KeepOnTie(_, _, _)
ShouldOverwrite_KeepOnTie(preferRoles, thisRoleName, existingRoleName) ==
    IF preferRoles = <<>> THEN FALSE
    ELSE LET matchesThisRole == MatchString(Head(preferRoles), thisRoleName)
             matchesExistingRole == MatchString(Head(preferRoles), existingRoleName)
         IN IF matchesThisRole /\ ~matchesExistingRole THEN TRUE
            ELSE IF ~matchesThisRole /\ matchesExistingRole THEN FALSE
            ELSE ShouldOverwrite_KeepOnTie(Tail(preferRoles), thisRoleName,
                                           existingRoleName)

RECURSIVE ShouldOverwrite(_, _, _)
ShouldOverwrite(preferRoles, thisRoleName, existingRoleName) ==
    IF preferRoles = <<>> THEN TRUE
    ELSE LET matchesThisRole == MatchString(Head(preferRoles), thisRoleName)
             matchesExistingRole == MatchString(Head(preferRoles), existingRoleName)
         IN IF matchesThisRole /\ ~matchesExistingRole THEN TRUE
            ELSE IF ~matchesThisRole /\ matchesExistingRole THEN FALSE
            ELSE ShouldOverwrite(Tail(preferRoles), thisRoleName, existingRoleName)

InSlice(s, x) == \E i \in 1..Len(s) : s[i] = x

RolesOf(profileNameToRoles, n) ==
    IF n \in DOMAIN profileNameToRoles THEN profileNameToRoles[n] ELSE <<>>

\* AppendRole assigning the role instead of appending it.
AppendRole_Assign(profileNameToRoles, n, role) ==
    [x \in DOMAIN profileNameToRoles \cup {n} |->
        IF x = n THEN <<role>> ELSE profileNameToRoles[x]]

AppendRole(profileNameToRoles, n, role) ==
    [x \in DOMAIN profileNameToRoles \cup {n} |->
        IF x = n THEN Append(RolesOf(profileNameToRoles, n), role)
        ELSE profileNameToRoles[x]]

\* The assignments the loop makes to the profile before it is rendered.
Resolved(a, opts) ==
    [a EXCEPT !.AccountName = normalizeAccountName(a.AccountName),
              !.SSOSessionName = IF opts.NoCredentialProcess THEN opts.SessionName
                                 ELSE <<>>]

WithDefaultRegion(a, opts) ==
    IF a.Region = <<>> /\ opts.DefaultRegion # <<>>
    THEN [a EXCEPT !.Region = opts.DefaultRegion] ELSE a

\* Second loop over the account profiles: st is [cfg, profiles, seen, roles,
\* err]; the loop returns at the first error.
RECURSIVE WriteProfiles(_, _, _, _)
WriteProfiles(st, i, templ, opts) ==
    IF i > Len(st.profiles) THEN st
    ELSE LET a0 == Resolved(st.profiles[i], opts)
         IN IF ExecuteFails(templ)
            THEN [st EXCEPT !.profiles[i] = a0, !.err = "execute"]
            ELSE
              LET a == WithDefaultRegion(a0, opts)
                  profileName == opts.Prefix \o Execute(templ, a0)
                  sectionName == ProfileSection(profileName)
                  isSeen == InSlice(st.seen, profileName)
                  preferring == isSeen /\ Len(opts.PreferRoles) > 0
                  skip == preferring
                          /\ ~ShouldOverwrite(opts.PreferRoles, a.RoleName,
                                 ExistingRoleName(GetSection(st.cfg, sectionName)))
                  isOverwrite == preferring /\ ~skip
                  mutated == [st EXCEPT !.profiles[i] = a]
              IN IF skip THEN WriteProfiles(mutated, i + 1, templ, opts)
                 ELSE IF NewSectionFails(sectionName)
                 THEN [mutated EXCEPT !.err = "section",
                           !.cfg = DeleteSection(st.cfg, sectionName)]
                 ELSE WriteProfiles(
                        [mutated EXCEPT
                           !.cfg = WriteSection(st.cfg, sectionName,
                                     AccountProfile_ToIni(a, profileName,
                                                          opts.NoCredentialProcess)),
                           !.seen = IF isOverwrite THEN st.seen
                                    ELSE Append(st.seen, profileName),
                           !.roles = IF isOverwrite THEN st.roles
                                     ELSE AppendRole(st.roles, profileName, a.RoleName)],
                        i + 1, templ, opts)

\* slices.Sort
RECURSIVE InsertString(_, _)
InsertString(x, sorted) ==
    IF sorted = <<>> THEN <<x>>
    ELSE IF StrLess(x, Head(sorted)) THEN <<x>> \o sorted
    ELSE <<Head(sorted)>> \o InsertString(x, Tail(sorted))

RECURSIVE SortStrings(_)
SortStrings(s) ==
    IF s = <<>> THEN <<>>
    ELSE InsertString(s[Len(s)], SortStrings(SubSeq(s, 1, Len(s) - 1)))

\* slices.Compact
RECURSIVE Compact(_)
Compact(s) ==
    IF Len(s) <= 1 THEN s
    ELSE IF s[1] = s[2] THEN Compact(Tail(s))
    ELSE <<s[1]>> \o Compact(Tail(s))

\* The names that occur twice in seenProfileNames, sorted, once each.
Dupes(seenProfileNames) ==
    LET sorted == SortStrings(seenProfileNames)
        idx == {i \in 2..Len(sorted) : sorted[i] = sorted[i - 1]}
        RECURSIVE Collect(_)
        Collect(i) ==
            IF i > Len(sorted) THEN <<>>
            ELSE (IF i \in idx THEN <<sorted[i]>> ELSE <<>>) \o Collect(i + 1)
    IN Compact(SortStrings(Collect(2)))

\* One clio.Warnf line per duplicate name: the name and the roles joined.
DuplicateReport(seenProfileNames, profileNameToRoles) ==
    LET dupes == Dupes(seenProfileNames)
    IN [i \in 1..Len(dupes) |->
            [profile |-> dupes[i], roles |-> RolesOf(profileNameToRoles, dupes[i])]]

NoRoles == [n \in {} |-> <<>>]

\* The names of the sections the pruning loop deletes.
PrunedNames(cfg, pruneStartURLs) ==
    {cfg[i].name : i \in {j \in 1..Len(cfg) : IsPruned(cfg[j], pruneStartURLs)}}

Outcome(cfg, err, warnings, profiles, pruned) ==
    [config |-> cfg, err |-> err, warnings |-> warnings, profiles |-> profiles,
     pruned |-> pruned]

\* Merge with the pruning loop after the writes instead of before them.
Merge_PruneAfterWrites(config, opts) ==
    LET templ == IF opts.SectionNameTemplate = <<>> THEN DefaultTemplate
                 ELSE opts.SectionNameTemplate
        accountProfiles == SliceStable(SelectSeq(opts.Profiles, IsAccount))
        assigned == ImplicitSessions(
                        WriteSessions(config, SelectSeq(opts.Profiles, IsSession)),
                        accountProfiles, opts)
        written ==
            WriteProfiles([cfg |-> assigned.cfg, profiles |-> assigned.profiles,
                           seen |-> <<>>, roles |-> NoRoles, err |-> ""],
                          1, templ, opts)
    IN IF HasUnsupported(opts.Profiles)
       THEN Outcome(config, "", <<>>, SelectSeq(opts.Profiles, IsAccount), {})
       ELSE IF ParseFails(templ) THEN Outcome(config, "parse", <<>>, accountProfiles, {})
       ELSE IF written.err # ""
       THEN Outcome(written.cfg, written.err, <<>>, written.profiles, {})
       ELSE Outcome(Prune(written.cfg, opts.PruneStartURLs), "",
                    DuplicateReport(written.seen, written.roles), written.profiles,
                    PrunedNames(written.cfg, opts.PruneStartURLs))

Merge(config, opts) ==
    LET templ == IF opts.SectionNameTemplate = <<>> THEN DefaultTemplate
                 ELSE opts.SectionNameTemplate
        ssoSessions == SelectSeq(opts.Profiles, IsSession)
        unsorted == SelectSeq(opts.Profiles, IsAccount)
        accountProfiles == SliceStable(unsorted)
        pruned == Prune(config, opts.PruneStartURLs)
        withSessions == WriteSessions(pruned, ssoSessions)
        assigned == ImplicitSessions(withSessions, accountProfiles, opts)
        written ==
            WriteProfiles([cfg |-> assigned.cfg, profiles |-> assigned.profiles,
                           seen |-> <<>>, roles |-> NoRoles, err |-> ""],
                          1, templ, opts)
        prunedNames == PrunedNames(config, opts.PruneStartURLs)
    IN IF HasUnsupported(opts.Profiles) THEN Outcome(config, "", <<>>, unsorted, {})
       ELSE IF ParseFails(templ) THEN Outcome(config, "parse", <<>>, accountProfiles, {})
       ELSE IF written.err # ""
       THEN Outcome(written.cfg, written.err, <<>>, written.profiles, prunedNames)
       ELSE Outcome(written.cfg, "", DuplicateReport(written.seen, written.roles),
                    written.profiles, prunedNames)

(***************************************************************************)
(* Generator.Generate: validates the profile name template, then merges    *)
(* the profiles of its sources into the document.  A section name must not *)
(* start or end with whitespace and must not contain a semicolon.          *)
(***************************************************************************)

ValidSectionName(name) ==
    /\ name # <<>> => (Head(name) # " " /\ name[Len(name)] # " ")
    /\ \A i \in 1..Len(name) : name[i] # ";"

EffectiveTemplate(opts) ==
    IF opts.SectionNameTemplate = <<>> THEN DefaultTemplate
    ELSE opts.SectionNameTemplate

\* Generate without the validation.
Generate_NoValidation(config, opts) == Merge(config, opts)

Generate(config, opts) ==
    IF ~ValidSectionName(EffectiveTemplate(opts))
    THEN Outcome(config, "name", <<>>, SelectSeq(opts.Profiles, IsAccount), {})
    ELSE Merge(config, opts)

(***************************************************************************)
(* Inputs of the model                                                     *)
(***************************************************************************)

MaxSections == 2
MaxProfiles == 2

Marker == "common_fate_generated_from"

KV(k, v) == [k |-> k, v |-> v]

\* Sections a loaded document can hold: hand-written ones and ones an
\* earlier run generated.
SectionPool ==
    << [name |-> <<"profile ", "a", "/", "A">>,
        keys |-> <<KV("granted_sso_start_url", <<"u1">>), KV("test", <<"1">>)>>],
       [name |-> <<"profile ", "a">>,
        keys |-> <<KV("granted_sso_start_url", <<"u1">>), KV(Marker, <<"g">>)>>],
       [name |-> <<"sso-session ", "s">>,
        keys |-> <<KV("sso_start_url", <<"u2">>), KV(Marker, <<"g">>)>>],
       [name |-> <<"profile ", "y">>,
        keys |-> <<KV(Marker, <<"g">>), KV("granted_sso_start_url", <<"u2">>),
                   KV("sso_start_url", <<"u1">>)>>] >>

\* The strictly increasing index lists of length at most n over 1..m.
Increasing(m, n) ==
    {s \in UNION {[1..k -> 1..m] : k \in 0..n} :
        \A j \in 1..(Len(s) - 1) : s[j] < s[j + 1]}

InitialConfigs ==
    {[j \in 1..Len(idx) |-> SectionPool[idx[j]]] :
        idx \in Increasing(Len(SectionPool), MaxSections)}

Account(name, role, id, url, gen, region, cf, session) ==
    [type |-> "AccountProfile", AccountName |-> name, SSOSessionName |-> session,
     AccountID |-> id, RoleName |-> role, GeneratedFrom |-> gen, Region |-> region,
     CommonFateURL |-> cf, SSOStartURL |-> url, SSORegion |-> <<"r2">>]

Session(name, url, gen) ==
    [type |-> "SSOSession", SSOSessionName |-> name, SSOStartURL |-> url,
     SSORegistrationScopes |-> <<"scope">>, SSORegion |-> <<"r2">>,
     GeneratedFrom |-> gen]

ProfilePool ==
    << Account(<<"a">>, <<"A">>, <<"1">>, <<"u1">>, <<"g">>, <<>>, <<>>, <<>>),
       Account(<<"a">>, <<"B">>, <<"2">>, <<"u2">>, <<"g">>, <<"r1">>, <<"c">>, <<>>),
       Account(<<"a">>, <<"A">>, <<"3">>, <<"u1">>, <<>>, <<>>, <<>>, <<"c", "-", "o">>),
       Session(<<"c", " ", "o">>, <<"u1">>, <<"g">>),
       [type |-> "Other"] >>

\* The lists of at most n distinct indexes of 1..m, in any order.
Injective(m, n) ==
    {s \in UNION {[1..k -> 1..m] : k \in 0..n} :
        \A i, j \in 1..Len(s) : i # j => s[i] # s[j]}

ProfileLists ==
    {[j \in 1..Len(idx) |-> ProfilePool[idx[j]]] :
        idx \in Injective(Len(ProfilePool), MaxProfiles)}

Templates ==
    { <<>>, <<"{A}">>, <<"{A}", ".", " ">>, <<"{A}", ".", ";">>,
      <<"{A}", "{{">>, <<"{X}">> }

\* A list with an entry of another type ends the call in the type switch:
\* the prefix and the default region are not varied for it.
Inputs ==
    {o \in [Prefix : {<<>>, <<"p", "-">>},
            Profiles : ProfileLists,
            SectionNameTemplate : Templates,
            NoCredentialProcess : BOOLEAN,
            PruneStartURLs : {<<>>, <<<<"u1">>>>, <<<<"u2">>, <<"u1">>>>},
            SessionName : {<<"s">>},
            SSOScopes : {<< <<"sso:account:access">> >>},
            PreferRoles : {<<>>},
            DefaultRegion : {<<>>, <<"r0">>}] :
        HasUnsupported(o.Profiles) => (o.Prefix = <<>> /\ o.DefaultRegion = <<>>)}

\* The inputs of the runs with preferred roles: lists of AccountProfiles
\* whose names collide under the default template (same account and role) or
\* under a template that leaves out the role.
ConflictPool ==
    << Account(<<"a">>, <<"A">>, <<"1">>, <<"u1">>, <<"g">>, <<>>, <<>>, <<>>),
       Account(<<"a">>, <<"B">>, <<"2">>, <<"u2">>, <<"g">>, <<"r1">>, <<"c">>, <<>>),
       Account(<<"a">>, <<"A">>, <<"3">>, <<"u1">>, <<>>, <<>>, <<>>, <<>>),
       Account(<<"a">>, <<"A", "B">>, <<"4">>, <<"u2">>, <<"g">>, <<"r1">>, <<>>, <<>>) >>

ConflictLists ==
    {[j \in 1..Len(idx) |-> ConflictPool[idx[j]]] :
        idx \in Injective(Len(ConflictPool), MaxProfiles)}

ConflictInputs ==
    [Prefix : {<<>>, <<"p", "-">>},
     Profiles : ConflictLists,
     SectionNameTemplate : {<<>>, <<"{A}">>},
     NoCredentialProcess : BOOLEAN,
     PruneStartURLs : {<<<<"u1">>>>},
     SessionName : {<<"s">>},
     SSOScopes : {<< <<"sso:account:access">> >>},
     PreferRoles : {<<>>, <<<<"A">>>>, <<<<"B">>, <<"A">>>>, <<<<"A", "B">>, <<"B">>>>},
     DefaultRegion : {<<>>, <<"r0">>}]

\* The inputs of the runs on account names with spaces: "a b" and "a-b"
\* are one name once normalized.
NamePool ==
    << Account(<<"a", " ", "b">>, <<"B">>, <<"1">>, <<"u1">>, <<"g">>, <<>>, <<>>, <<>>),
       Account(<<"a", "-", "b">>, <<"A">>, <<"2">>, <<"u2">>, <<"g">>, <<>>, <<>>, <<>>),
       Account(<<"a", " ", "b">>, <<"A">>, <<"3">>, <<"u1">>, <<"g">>, <<>>, <<>>, <<>>) >>

NameLists ==
    {[j \in 1..Len(idx) |-> NamePool[idx[j]]] :
        idx \in Injective(Len(NamePool), MaxProfiles)}

NameInputs ==
    [Prefix : {<<>>},
     Profiles : NameLists,
     SectionNameTemplate : {<<>>, <<"{A}">>},
     NoCredentialProcess : BOOLEAN,
     PruneStartURLs : {<<<<"u1">>>>},
     SessionName : {<<"s">>},
     SSOScopes : {<< <<"sso:account:access">> >>},
     PreferRoles : {<<>>},
     DefaultRegion : {<<>>}]

\* The inputs of the runs in which three or more AccountProfiles render to
\* one name: the profiles of ConflictPool under a template without the role.
PreferLists ==
    {[j \in 1..Len(idx) |-> ConflictPool[idx[j]]] :
        idx \in Injective(Len(ConflictPool), MaxProfiles + 1)}

PreferInputs ==
    [Prefix : {<<>>},
     Profiles : PreferLists,
     SectionNameTemplate : {<<"{A}">>},
     NoCredentialProcess : BOOLEAN,
     PruneStartURLs : {<<>>},
     SessionName : {<<"s">>},
     SSOScopes : {<< <<"sso:account:access">> >>},
     PreferRoles : {<<<<"A">>>>, <<<<"B">>>>, <<<<"B">>, <<"A">>>>,
                    <<<<"A", "B">>, <<"B">>>>, <<<<"A">>, <<"A", "B">>>>},
     DefaultRegion : {<<>>}]

\* The inputs of two runs in a row: the earlier run writes profiles, the
\* later run has other profiles and prunes start URLs.
EarlierInputs ==
    {o \in Inputs : /\ ~HasUnsupported(o.Profiles)
                    /\ o.SectionNameTemplate \in {<<>>, <<"{A}">>}
                    /\ o.PruneStartURLs = <<>>
                    /\ o.DefaultRegion = <<>>}

LaterInputs ==
    [Prefix : {<<>>},
     Profiles : {<<>>, <<ProfilePool[2]>>},
     SectionNameTemplate : {<<>>},
     NoCredentialProcess : BOOLEAN,
     PruneStartURLs : {<<<<"u1">>>>, <<<<"u2">>, <<"u1">>>>},
     SessionName : {<<"s">>},
     SSOScopes : {<< <<"sso:account:access">> >>},
     PreferRoles : {<<>>},
     DefaultRegion : {<<>>}]

\* Generator has no field for the session name, the scopes, the preferred
\* roles or the default region: its call of Merge leaves them zero.
GeneratorInputs ==
    {o \in Inputs : /\ o.SessionName = <<"s">>
                    /\ o.PreferRoles = <<>>
                    /\ o.DefaultRegion = <<>>}

FromGenerator(o) ==
    [o EXCEPT !.SessionName = <<>>, !.SSOScopes = <<>>]

NoInputs ==
    [Prefix |-> <<>>, Profiles |-> <<>>, SectionNameTemplate |-> <<>>,
     NoCredentialProcess |-> FALSE, PruneStartURLs |-> <<>>, SessionName |-> <<>>,
     SSOScopes |-> <<>>, PreferRoles |-> <<>>, DefaultRegion |-> <<>>]

(***************************************************************************)
(* The state machine: a document is loaded, one call reconciles it, and    *)
(* the call may be repeated with the same inputs on the document it left.  *)
(***************************************************************************)

VARIABLES
    config,     \* opts.Config, the document
    opts,       \* the inputs of the last call
    call,       \* "load", or the entry point of the last call
    rerun,      \* the last call repeated the one before it
    before,     \* the document the last call started from
    err,        \* the error the last call returned, "" for nil
    warnings,   \* the duplicate report of the last call
    profiles,   \* the AccountProfiles as the last call left them
    pruned,     \* the names the pruning loop of the last call deleted
    earlier     \* the inputs of the call before the last one

vars ==
    <<config, opts, call, rerun, before, err, warnings, profiles, pruned, earlier>>

Init ==
    /\ config \in InitialConfigs
    /\ opts = NoInputs
    /\ call = "load"
    /\ rerun = FALSE
    /\ before = config
    /\ err = ""
    /\ warnings = <<>>
    /\ profiles = <<>>
    /\ pruned = {}
    /\ earlier = NoInputs

Apply(r) ==
    /\ config' = r.config
    /\ before' = config
    /\ err' = r.err
    /\ warnings' = r.warnings
    /\ profiles' = r.profiles
    /\ pruned' = r.pruned
    /\ earlier' = opts

MergeCall ==
    /\ call = "load"
    /\ \E o \in Inputs :
        /\ opts' = o
        /\ Apply(Merge(config, o))
    /\ call' = "Merge"
    /\ rerun' = FALSE

GenerateCall ==
    /\ call = "load"
    /\ \E o \in GeneratorInputs :
        /\ opts' = FromGenerator(o)
        /\ Apply(Generate(config, FromGenerator(o)))
    /\ call' = "Generate"
    /\ rerun' = FALSE

Rerun ==
    /\ call # "load"
    /\ Apply(IF call = "Merge" THEN Merge(config, opts) ELSE Generate(config, opts))
    /\ rerun' = TRUE
    /\ UNCHANGED <<opts, call>>

Next == MergeCall \/ Rerun

Spec == Init /\ [][Next]_vars

\* The calls with preferred roles, on a document of one section at most.
InitConflict == Init /\ Len(config) <= 1

MergeConflict ==
    /\ call = "load"
    /\ \E o \in ConflictInputs :
        /\ opts' = o
        /\ Apply(Merge(config, o))
    /\ call' = "Merge"
    /\ rerun' = FALSE

NextConflict == MergeConflict \/ Rerun

SpecConflict == InitConflict /\ [][NextConflict]_vars

\* The calls on account names with spaces.
MergeNames ==
    /\ call = "load"
    /\ \E o \in NameInputs :
        /\ opts' = o
        /\ Apply(Merge(config, o))
    /\ call' = "Merge"
    /\ rerun' = FALSE

NextNames == MergeNames \/ Rerun

SpecNames == InitConflict /\ [][NextNames]_vars

\* The calls with preferred roles on three or more colliding profiles.
MergePrefer ==
    /\ call = "load"
    /\ \E o \in PreferInputs :
        /\ opts' = o
        /\ Apply(Merge(config, o))
    /\ call' = "Merge"
    /\ rerun' = FALSE

NextPrefer == MergePrefer \/ Rerun

SpecPrefer == InitConflict /\ [][NextPrefer]_vars

\* Two calls in a row on one document, the later one with other inputs.
MergeEarlier ==
    /\ call = "load"
    /\ \E o \in EarlierInputs :
        /\ opts' = o
        /\ Apply(Merge(config, o))
    /\ call' = "Merge"
    /\ rerun' = FALSE

MergeLater ==
    /\ call = "Merge"
    /\ err = ""
    /\ \E o \in LaterInputs :
        /\ opts' = o
        /\ Apply(Merge(config, o))
    /\ call' = "Later"
    /\ rerun' = FALSE

NextLater == MergeEarlier \/ MergeLater

SpecLater == InitConflict /\ [][NextLater]_vars

\* The calls through Generator.Generate.
NextGenerator == GenerateCall \/ Rerun

SpecGenerator == Init /\ [][NextGenerator]_vars

(***************************************************************************)
(* Vocabulary of the properties                                            *)
(***************************************************************************)

\* The last call entered Merge.
MergeRan ==
    /\ call # "load"
    /\ call = "Generate" => ValidSectionName(EffectiveTemplate(opts))

\* The last call got past the type switch and the compilation of the template.
Processed ==
    /\ MergeRan
    /\ ~HasUnsupported(opts.Profiles)
    /\ ~ParseFails(EffectiveTemplate(opts))

\* The last call ran to its end.
Completed == Processed /\ err = ""

InputAccounts == SelectSeq(opts.Profiles, IsAccount)
InputSessions == SelectSeq(opts.Profiles, IsSession)

\* The profile name an input AccountProfile renders to.
TargetName(a) ==
    opts.Prefix \o Execute(EffectiveTemplate(opts),
                           [a EXCEPT !.AccountName = normalizeAccountName(a.AccountName)])

\* The section names some input renders to: the explicit sessions, the
\* session synthesized for profiles without one, the account profiles.
RenderedNames ==
    {SessionSection(normalizeAccountName(InputSessions[i].SSOSessionName)) :
        i \in 1..Len(InputSessions)}
    \cup {ProfileSection(TargetName(InputAccounts[i])) : i \in 1..Len(InputAccounts)}
    \cup (IF opts.NoCredentialProcess
             /\ \E i \in 1..Len(InputAccounts) : InputAccounts[i].SSOSessionName = <<>>
          THEN {SessionSection(ImplicitSessionName(opts))} ELSE {})

UserOwned(sec) == ~HasKey(sec, Marker)

InDocument(cfg, sec) == \E j \in 1..Len(cfg) : cfg[j] = sec

(***************************************************************************)
(* C1                                                                      *)
(***************************************************************************)

\* C1 (as stated): after every call, each section of the input document
\* without the common_fate_generated_from key is in the document with the
\* same keys and values, also when an input renders to its name.
C1_UserSectionsNeverChanged ==
    call # "load" =>
        \A i \in 1..Len(before) :
            UserOwned(before[i]) => InDocument(config, before[i])

\* C1 (amended): after every call, each section of the input document
\* without the common_fate_generated_from key, to whose name no input
\* AccountProfile or SSOSession (explicit or synthesized) renders, is in the
\* document with the same keys and values.
C1_UserSectionsKeptUnlessRendered ==
    call # "load" =>
        \A i \in 1..Len(before) :
            (UserOwned(before[i]) /\ before[i].name \notin RenderedNames)
                => InDocument(config, before[i])

\* A completed run that pruned and wrote sections around a user-owned one
\* whose start URL is in the prune set.
C1_Witness ==
    /\ Completed
    /\ pruned # {}
    /\ Len(InputAccounts) > 0
    /\ \E i \in 1..Len(before) :
        /\ UserOwned(before[i])
        /\ before[i].name \notin RenderedNames
        /\ InDocument(config, before[i])
        /\ InSlice(opts.PruneStartURLs, SectionStartURL(before[i]))

(***************************************************************************)
(* C2                                                                      *)
(***************************************************************************)

\* The start URL of a section: the value of granted_sso_start_url, or of
\* sso_start_url in a section without the former; empty without both.
StartURLOf(sec) ==
    LET granted == {i \in 1..Len(sec.keys) : sec.keys[i].k = "granted_sso_start_url"}
        sso == {i \in 1..Len(sec.keys) : sec.keys[i].k = "sso_start_url"}
    IN IF granted # {} THEN sec.keys[CHOOSE i \in granted : TRUE].v
       ELSE IF sso # {} THEN sec.keys[CHOOSE i \in sso : TRUE].v
       ELSE <<>>

MarkedAndStale(sec) ==
    /\ \E i \in 1..Len(sec.keys) : sec.keys[i].k = Marker
    /\ \E i \in 1..Len(opts.PruneStartURLs) : opts.PruneStartURLs[i] = StartURLOf(sec)

\* C2: the pruning pass deletes a section of the input document if and only
\* if the section has the common_fate_generated_from key and its start URL
\* equals an entry of PruneStartURLs; a section no input renders to is in
\* the final document exactly when the pass did not delete it.
C2_PrunedIffMarkedAndStale ==
    Processed =>
        \A i \in 1..Len(before) :
            /\ before[i].name \in pruned <=> MarkedAndStale(before[i])
            /\ before[i].name \notin RenderedNames
                => (HasSection(config, before[i].name) <=> ~MarkedAndStale(before[i]))

\* One run meets a pruned section, a section with a stale URL and no marker,
\* and the prune set is not empty for a kept section that has the marker.
C2_Witness ==
    /\ Processed
    /\ \E i, j \in 1..Len(before) :
        /\ MarkedAndStale(before[i]) /\ ~HasSection(config, before[i].name)
        /\ i # j /\ HasSection(config, before[j].name)
        /\ before[j].name \notin RenderedNames
        /\ \/ UserOwned(before[j])
                /\ InSlice(opts.PruneStartURLs, StartURLOf(before[j]))
           \/ ~UserOwned(before[j])
                /\ ~InSlice(opts.PruneStartURLs, StartURLOf(before[j]))

(***************************************************************************)
(* C3                                                                      *)
(***************************************************************************)

AccountIdx == 1..Len(InputAccounts)

\* The input AccountProfiles (by index) that render to the name of profile i.
Group(i) ==
    {j \in AccountIdx : TargetName(InputAccounts[j]) = TargetName(InputAccounts[i])}

\* Profile i comes before profile j in the sorted order: by the combined
\* AccountName/RoleName of the input, ties by input order.
SortedBefore(i, j) ==
    \/ StrLess(CombinedName(InputAccounts[i]), CombinedName(InputAccounts[j]))
    \/ /\ ~StrLess(CombinedName(InputAccounts[j]), CombinedName(InputAccounts[i]))
       /\ i < j

\* The keys and values a profile section holds when it is the rendering of
\* the input AccountProfile a.
RenderingOf(a) ==
    LET r == WithDefaultRegion(Resolved(a, opts), opts)
        entry == ReflectFields(
                    AccountProfile_ToIni(r, TargetName(a), opts.NoCredentialProcess))
    IN [j \in 1..Len(entry) |-> KV(entry[j].k, entry[j].v)]

HoldsRenderingOf(i) ==
    LET name == ProfileSection(TargetName(InputAccounts[i]))
    IN /\ HasSection(config, name)
       /\ GetSection(config, name).keys = RenderingOf(InputAccounts[i])

\* C4: PreferRoles empty: a section two or more AccountProfiles render to
\* holds the rendering of the one that is last in the sorted order.
C4_LastInSortedOrderWins ==
    (Completed /\ opts.PreferRoles = <<>>) =>
        \A i \in AccountIdx :
            (Cardinality(Group(i)) >= 2
                /\ \A j \in Group(i) \ {i} : SortedBefore(j, i))
            => HoldsRenderingOf(i)

\* Two colliding profiles with different data of which the one that is
\* later in the input list is sorted first.
C4_Witness ==
    /\ Completed
    /\ opts.PreferRoles = <<>>
    /\ \E i, j \in AccountIdx :
        /\ i < j
        /\ j \in Group(i)
        /\ SortedBefore(j, i)
        /\ RenderingOf(InputAccounts[i]) # RenderingOf(InputAccounts[j])
        /\ HoldsRenderingOf(i)

\* The first pattern of PreferRoles that matches exactly one of two roles.
Distinguishing(r1, r2) ==
    {k \in 1..Len(opts.PreferRoles) :
        MatchString(opts.PreferRoles[k], r1) # MatchString(opts.PreferRoles[k], r2)}

FirstDistinguishing(r1, r2) ==
    CHOOSE k \in Distinguishing(r1, r2) : \A l \in Distinguishing(r1, r2) : k <= l

\* C5: exactly two AccountProfiles render to a name and a PreferRoles
\* pattern (the first that tells them apart) matches the role of one and not
\* of the other: the section holds the rendering of the matched one,
\* whichever of the two is first in the sorted order.
C5_PreferredRoleWins ==
    Completed =>
        \A i, j \in AccountIdx :
            (/\ i # j
             /\ Group(i) = {i, j}
             /\ Distinguishing(InputAccounts[i].RoleName, InputAccounts[j].RoleName) # {}
             /\ MatchString(
                    opts.PreferRoles[FirstDistinguishing(InputAccounts[i].RoleName,
                                                         InputAccounts[j].RoleName)],
                    InputAccounts[i].RoleName))
            => HoldsRenderingOf(i)

\* The preferred profile is the first of the two in the sorted order: the
\* second one was skipped.
C5_Witness ==
    /\ Completed
    /\ \E i, j \in AccountIdx :
        /\ i # j
        /\ Group(i) = {i, j}
        /\ SortedBefore(i, j)
        /\ Distinguishing(InputAccounts[i].RoleName, InputAccounts[j].RoleName) # {}
        /\ MatchString(
                opts.PreferRoles[FirstDistinguishing(InputAccounts[i].RoleName,
                                                     InputAccounts[j].RoleName)],
                InputAccounts[i].RoleName)
        /\ HoldsRenderingOf(i)
        /\ ~HoldsRenderingOf(j)

(***************************************************************************)
(* C6                                                                      *)
(***************************************************************************)

Range(s) == {s[i] : i \in 1..Len(s)}

\* The sorted list of the elements of a set of strings.
SortedList(S) ==
    CHOOSE s \in UNION {[1..n -> S] : n \in {Cardinality(S)}} :
        /\ Range(s) = S
        /\ \A i \in 1..(Len(s) - 1) : StrLess(s[i], s[i + 1])

\* The profile names two or more input AccountProfiles render to.
CollidingNames ==
    {TargetName(InputAccounts[i]) : i \in {j \in AccountIdx : Cardinality(Group(j)) >= 2}}

RolesTargeting(name) ==
    {InputAccounts[i].RoleName :
        i \in {j \in AccountIdx : TargetName(InputAccounts[j]) = name}}

\* C6: the duplicate report has exactly one entry for every profile name two
\* or more input AccountProfiles rendered to, with the sorted, deduplicated
\* roles of all the profiles that targeted it, also when PreferRoles is set.
C6_DuplicateReport ==
    Completed =>
        /\ {warnings[i].profile : i \in 1..Len(warnings)} = CollidingNames
        /\ \A i, j \in 1..Len(warnings) :
                warnings[i].profile = warnings[j].profile => i = j
        /\ \A i \in 1..Len(warnings) :
                warnings[i].roles = SortedList(RolesTargeting(warnings[i].profile))

\* The input AccountProfiles that render to a name, in the sorted order.
OrderedGroup(name) ==
    LET G == {j \in AccountIdx : TargetName(InputAccounts[j]) = name}
    IN CHOOSE s \in UNION {[1..n -> G] : n \in {Cardinality(G)}} :
        /\ Range(s) = G
        /\ \A i \in 1..(Len(s) - 1) : SortedBefore(s[i], s[i + 1])

RolesInOrder(name) ==
    [i \in 1..Len(OrderedGroup(name)) |-> InputAccounts[OrderedGroup(name)[i]].RoleName]

\* C6 (amended): with PreferRoles empty the report has exactly one entry for
\* every profile name two or more input AccountProfiles rendered to, the
\* entries ascending by name, each with the role of every profile that
\* targeted the name, in the sorted order of the profiles and with
\* repetitions; with PreferRoles set the report is empty.
C6_ReportWithoutPreferRoles ==
    Completed =>
        IF opts.PreferRoles # <<>> THEN warnings = <<>>
        ELSE /\ {warnings[i].profile : i \in 1..Len(warnings)} = CollidingNames
             /\ \A i \in 1..(Len(warnings) - 1) :
                    StrLess(warnings[i].profile, warnings[i + 1].profile)
             /\ \A i \in 1..Len(warnings) :
                    warnings[i].roles = RolesInOrder(warnings[i].profile)

\* A report with an entry of two different roles, the profile of the second
\* one being first in the input.
C6_Witness ==
    /\ Completed
    /\ Len(warnings) = 1
    /\ Len(warnings[1].roles) = 2
    /\ warnings[1].roles[1] # warnings[1].roles[2]
    /\ InputAccounts[1].RoleName = warnings[1].roles[2]

(***************************************************************************)
(* C7                                                                      *)
(***************************************************************************)

Supported(p) == IsSession(p) \/ IsAccount(p)

\* C7: an entry of an unsupported variant is a no-op for that entry only: the
\* call returns no error and leaves the document it leaves for the list
\* without the entry.
C7_UnsupportedEntryIsSkipped ==
    (MergeRan /\ HasUnsupported(opts.Profiles)) =>
        /\ err = ""
        /\ config = Merge(before,
                        [opts EXCEPT !.Profiles = SelectSeq(opts.Profiles, Supported)]).config

(***************************************************************************)
(* C8                                                                      *)
(***************************************************************************)

\* A name with leading or trailing whitespace or with a semicolon.
Illegal(name) ==
    \/ name # <<>> /\ (name[1] = " " \/ name[Len(name)] = " ")
    \/ ";" \in Range(name)

Compiles(templ) == "{{" \notin Range(templ)
Executes(templ) == "{X}" \notin Range(templ)

C9_CompileErrorBeforeAnyWrite ==
    (/\ MergeRan
     /\ ~HasUnsupported(opts.Profiles)
     /\ ~Compiles(EffectiveTemplate(opts)))
    => (err # "" /\ config = before)

\* A compile error in a call that had sections to prune and a session and a
\* profile to write.
C9_Witness ==
    /\ call = "Merge"
    /\ err = "parse"
    /\ ~Compiles(EffectiveTemplate(opts))
    /\ Len(InputSessions) > 0
    /\ Len(InputAccounts) > 0
    /\ \E i \in 1..Len(before) : MarkedAndStale(before[i])
    /\ config = before

(***************************************************************************)
(* C10                                                                     *)
(***************************************************************************)

NoCollision == \A i \in AccountIdx : Group(i) = {i}

\* The distinct sessions of the run, explicit or synthesized.
SessionNamesOfRun ==
    {n \in RenderedNames : n[1] = "sso-session "}

NotPruned == {i \in 1..Len(before) : ~MarkedAndStale(before[i])}

\* C10 (as stated): no two profiles render to the same name: the number of
\* sections after the call is the number of input sections not pruned, plus
\* one per AccountProfile, plus one per distinct session.
C10_SectionCount ==
    (Completed /\ NoCollision) =>
        Len(config) = Cardinality(NotPruned) + Len(InputAccounts)
                        + Cardinality(SessionNamesOfRun)

\* C10 (amended): the input sections counted are those neither pruned nor
\* named like a section the call writes (such a section is replaced).
C10_SectionCountWithoutReplaced ==
    (Completed /\ NoCollision) =>
        Len(config) =
            Cardinality({i \in NotPruned : before[i].name \notin RenderedNames})
                + Len(InputAccounts) + Cardinality(SessionNamesOfRun)

\* A run that pruned a section, replaced another one by name, kept a third
\* and wrote a session and a profile.
C10_Witness ==
    /\ Completed
    /\ NoCollision
    /\ Len(InputAccounts) > 0
    /\ SessionNamesOfRun # {}
    /\ \E i \in NotPruned : before[i].name \in RenderedNames
    /\ \E i \in 1..Len(before) : i \notin NotPruned
    /\ Len(config) > Len(InputAccounts) + Cardinality(SessionNamesOfRun)

(***************************************************************************)
(* C11                                                                     *)
(***************************************************************************)

\* The section written for the input AccountProfile i.
SectionOf(i) == GetSection(config, ProfileSection(TargetName(InputAccounts[i])))

\* C11: in session-reference mode the section of an AccountProfile that
\* carries an SSOSessionName has sso_session equal to that name, whatever the
\* implicit session name of the caller is; the section of a profile without
\* one has the implicit session name (with or without the prefix).
C11_ExplicitSessionNameKept ==
    (Completed /\ opts.NoCredentialProcess) =>
        \A i \in AccountIdx :
            Group(i) = {i} =>
                IF InputAccounts[i].SSOSessionName # <<>>
                THEN KeyString(SectionOf(i), "sso_session")
                        = InputAccounts[i].SSOSessionName
                ELSE KeyString(SectionOf(i), "sso_session")
                        \in {opts.SessionName, ImplicitSessionName(opts)}

(***************************************************************************)
(* C12                                                                     *)
(***************************************************************************)

\* The names of the profile sections the input AccountProfiles render to.
ProfileSectionNames ==
    {ProfileSection(TargetName(InputAccounts[i])) : i \in AccountIdx}

PositionOf(name) == CHOOSE k \in 1..Len(config) : config[k].name = name

\* The input AccountProfile (by index) processed at position k of the run;
\* the account ids of a list are distinct.
InputIdx(k) ==
    CHOOSE i \in AccountIdx : InputAccounts[i].AccountID = profiles[k].AccountID

\* C12: for every order of the input list, the profile sections the call
\* wrote are the last sections of the document, after every section it did
\* not rewrite, in ascending order of the combined AccountName/RoleName of
\* the profiles they hold; the profiles are processed in ascending order of
\* that key, those with equal keys in their input order.
C12_SectionsInSortedOrder ==
    Completed =>
        /\ \A k \in 1..Len(config) :
                k > Len(config) - Cardinality(ProfileSectionNames)
                    <=> config[k].name \in ProfileSectionNames
        /\ \A i, j \in AccountIdx :
                (/\ HoldsRenderingOf(i) /\ HoldsRenderingOf(j)
                 /\ PositionOf(ProfileSection(TargetName(InputAccounts[i])))
                        < PositionOf(ProfileSection(TargetName(InputAccounts[j]))))
                => StrLess(CombinedName(InputAccounts[i]), CombinedName(InputAccounts[j]))
        /\ Len(profiles) = Len(InputAccounts)
        /\ \A k, l \in 1..Len(profiles) :
                k < l => SortedBefore(InputIdx(k), InputIdx(l))

\* Two profiles given in descending order of the key are written in
\* ascending order after a section the call kept.
C12_Witness ==
    /\ Completed
    /\ \E k \in 1..Len(config) : config[k].name \notin RenderedNames
    /\ \E i, j \in AccountIdx :
        /\ i < j
        /\ StrLess(CombinedName(InputAccounts[j]), CombinedName(InputAccounts[i]))
        /\ HoldsRenderingOf(i) /\ HoldsRenderingOf(j)
        /\ PositionOf(ProfileSection(TargetName(InputAccounts[j])))
                < PositionOf(ProfileSection(TargetName(InputAccounts[i])))

(***************************************************************************)
(* C13                                                                     *)
(***************************************************************************)

IsSessionName(name) == name # <<>> /\ name[1] = "sso-session "

\* The sso-session sections of a document.
SessionSectionsOf(cfg) ==
    {cfg[k] : k \in {l \in 1..Len(cfg) : IsSessionName(cfg[l].name)}}

\* The section names of the explicit SSOSessions of the input.
ExplicitSessionNames ==
    {SessionSection(normalizeAccountName(InputSessions[i].SSOSessionName)) :
        i \in 1..Len(InputSessions)}

\* The keys and values of the section an SSOSession is rendered to.
SessionRendering(s) ==
    LET entry == ReflectFields(SSOSession_ToIni(s))
    IN [j \in 1..Len(entry) |-> KV(entry[j].k, entry[j].v)]

\* C13 (as stated): in credential-process mode the sso-session sections
\* after the call are those before it, with the same keys and values, also
\* when the input has explicit SSOSessions.
C13_NoSessionSectionTouched ==
    (MergeRan /\ ~opts.NoCredentialProcess) =>
        SessionSectionsOf(config) = SessionSectionsOf(before)

\* C13 (amended): in credential-process mode no session is synthesized: an
\* sso-session section is created or replaced exactly for the explicit
\* SSOSessions of the input, deleted only by the pruning pass, and otherwise
\* left as it was.
C13_OnlyExplicitSessionsWritten ==
    (Completed /\ ~opts.NoCredentialProcess) =>
        /\ \A i \in 1..Len(InputSessions) :
              LET name == SessionSection(
                              normalizeAccountName(InputSessions[i].SSOSessionName))
              IN /\ HasSection(config, name)
                 /\ \E j \in 1..Len(InputSessions) :
                        GetSection(config, name).keys = SessionRendering(InputSessions[j])
        /\ \A sec \in SessionSectionsOf(config) :
              sec.name \notin ExplicitSessionNames
                => (sec \in SessionSectionsOf(before) /\ sec.name \notin pruned)
        /\ \A sec \in SessionSectionsOf(before) :
              (sec.name \notin ExplicitSessionNames /\ sec.name \notin pruned)
                => sec \in SessionSectionsOf(config)

\* A run in credential-process mode with a profile that has no session name
\* and an explicit session: the session is written, an sso-session section
\* of the document is kept, none is synthesized.
C13_Witness ==
    /\ Completed
    /\ ~opts.NoCredentialProcess
    /\ \E i \in AccountIdx : InputAccounts[i].SSOSessionName = <<>>
    /\ Len(InputSessions) > 0
    /\ \A i \in 1..Len(InputSessions) :
            HasSection(config, SessionSection(
                normalizeAccountName(InputSessions[i].SSOSessionName)))
    /\ \E sec \in SessionSectionsOf(before) : sec \in SessionSectionsOf(config)
    /\ opts.Prefix # <<>>
    /\ ~HasSection(config, SessionSection(ImplicitSessionName(opts)))

(***************************************************************************)
(* C14                                                                     *)
(***************************************************************************)

\* The input AccountProfiles (by index) without an SSOSessionName.
SessionLess == {i \in AccountIdx : InputAccounts[i].SSOSessionName = <<>>}

\* The first of them in the sorted order.
FirstSessionLess ==
    CHOOSE i \in SessionLess : \A j \in SessionLess \ {i} : SortedBefore(i, j)

\* The keys and values of the session synthesized from AccountProfile a.
ImplicitRendering(a) ==
    SessionRendering([SSOSessionName |-> ImplicitSessionName(opts),
                      SSOStartURL |-> a.SSOStartURL,
                      SSORegistrationScopes |-> Join(opts.SSOScopes, <<" ">>),
                      SSORegion |-> a.SSORegion,
                      GeneratedFrom |-> a.GeneratedFrom])

\* C14: in session-reference mode, when the input has AccountProfiles
\* without an SSOSessionName, the document has the one section of the
\* implicit session name, rendered from the start URL, region and marker of
\* the first such profile in the sorted order, whatever later session-less
\* profiles carry; without such a profile no session is synthesized.
C14_OneImplicitSessionFromFirst ==
    (Processed /\ opts.NoCredentialProcess) =>
        LET name == SessionSection(ImplicitSessionName(opts))
        IN IF SessionLess # {}
           THEN /\ Cardinality({k \in 1..Len(config) : config[k].name = name}) = 1
                /\ GetSection(config, name).keys
                        = ImplicitRendering(InputAccounts[FirstSessionLess])
           ELSE \A sec \in SessionSectionsOf(config) :
                    sec.name \notin ExplicitSessionNames
                        => (sec \in SessionSectionsOf(before) /\ sec.name \notin pruned)

\* Two session-less profiles with different start URLs, given in descending
\* order: the session holds the URL of the one sorted first.
C14_Witness ==
    /\ Completed
    /\ opts.NoCredentialProcess
    /\ \E i, j \in SessionLess :
        /\ i < j
        /\ SortedBefore(j, i)
        /\ InputAccounts[i].SSOStartURL # InputAccounts[j].SSOStartURL
        /\ KeyString(GetSection(config, SessionSection(ImplicitSessionName(opts))),
                     "sso_start_url") = InputAccounts[j].SSOStartURL

(***************************************************************************)
(* C15                                                                     *)
(***************************************************************************)

NormalizedKey(a) == normalizeAccountName(a.AccountName) \o <<"/">> \o a.RoleName

\* Profile i comes before profile j by the normalized key, ties by input
\* order.
NormalizedBefore(i, j) ==
    \/ StrLess(NormalizedKey(InputAccounts[i]), NormalizedKey(InputAccounts[j]))
    \/ /\ ~StrLess(NormalizedKey(InputAccounts[j]), NormalizedKey(InputAccounts[i]))
       /\ i < j

\* The names are rendered from the normalized AccountName: no profile
\* section of the run has a space in the account part of its name.
NamesNormalized ==
    \A i \in AccountIdx :
        /\ HasSection(config, ProfileSection(TargetName(InputAccounts[i])))
        /\ " " \notin Range(TargetName(InputAccounts[i]))

\* C15 (as stated): the AccountProfiles are processed in ascending order of
\* the normalized AccountName/RoleName key, and of the profiles rendering to
\* one name the last in that order holds the section.
C15_SortedByNormalizedName ==
    (Completed /\ opts.PreferRoles = <<>>) =>
        /\ NamesNormalized
        /\ \A k, l \in 1..Len(profiles) :
                k < l => NormalizedBefore(InputIdx(k), InputIdx(l))
        /\ \A i \in AccountIdx :
                (\A j \in Group(i) \ {i} : NormalizedBefore(j, i)) => HoldsRenderingOf(i)

\* C15 (amended): the AccountName is normalized before the template is
\* evaluated, and after the sort: the AccountProfiles are processed in
\* ascending order of the key made of the AccountName as given, and of the
\* profiles rendering to one name the last in that order holds the section.
C15_SortedByGivenName ==
    (Completed /\ opts.PreferRoles = <<>>) =>
        /\ NamesNormalized
        /\ Len(profiles) = Len(InputAccounts)
        /\ \A k, l \in 1..Len(profiles) :
                k < l => SortedBefore(InputIdx(k), InputIdx(l))
        /\ \A i \in AccountIdx :
                (\A j \in Group(i) \ {i} : SortedBefore(j, i)) => HoldsRenderingOf(i)

\* Two profiles whose names are equal once normalized and whose order by
\* the name as given is the reverse of their order by the normalized name.
C15_Witness ==
    /\ Completed
    /\ opts.PreferRoles = <<>>
    /\ \E i, j \in AccountIdx :
        /\ j \in Group(i) \ {i}
        /\ InputAccounts[i].AccountName # InputAccounts[j].AccountName
        /\ SortedBefore(i, j)
        /\ NormalizedBefore(j, i)
        /\ HoldsRenderingOf(j)
        /\ ~HoldsRenderingOf(i)

(***************************************************************************)
(* C16                                                                     *)
(***************************************************************************)

\* C16: the pruning pass runs once, before the writes: after a completed
\* call every explicit session, the synthesized session and every
\* AccountProfile of the input has its section in the document, holding a
\* rendering of the run, also when the section is marked and its start URL
\* is in PruneStartURLs; the names the pass deleted are names of the
\* document the call started from.
C16_WrittenSectionsSurvivePruning ==
    Completed =>
        /\ \A name \in RenderedNames : HasSection(config, name)
        /\ \A i \in AccountIdx : \E j \in Group(i) : HoldsRenderingOf(j)
        /\ \A name \in ExplicitSessionNames :
                \/ \E j \in 1..Len(InputSessions) :
                        GetSection(config, name).keys = SessionRendering(InputSessions[j])
                \/ /\ opts.NoCredentialProcess /\ SessionLess # {}
                   /\ name = SessionSection(ImplicitSessionName(opts))
        /\ pruned \subseteq SectionNames(before)

\* The call pruned a section and wrote it again, and the document ends with
\* a session section and a profile section that are marked and stale.
C16_Witness ==
    /\ Completed
    /\ \E name \in pruned : name \in RenderedNames /\ HasSection(config, name)
    /\ \E k, l \in 1..Len(config) :
        /\ config[k].name \in RenderedNames /\ config[l].name \in RenderedNames
        /\ IsSessionName(config[k].name) /\ ~IsSessionName(config[l].name)
        /\ MarkedAndStale(config[k]) /\ MarkedAndStale(config[l])

(***************************************************************************)
(* C17                                                                     *)
(***************************************************************************)

\* The match vector of a role: which patterns of PreferRoles match it.
MatchVector(role) ==
    [k \in 1..Len(opts.PreferRoles) |-> MatchString(opts.PreferRoles[k], role)]

\* v is better than w: the first pattern on which they differ matches v.
Better(v, w) ==
    \E k \in 1..Len(v) : v[k] /\ ~w[k] /\ \A l \in 1..(k - 1) : v[l] = w[l]

\* The profiles of the group of i whose role has a best match vector.
BestOf(i) ==
    {j \in Group(i) :
        \A k \in Group(i) :
            ~Better(MatchVector(InputAccounts[k].RoleName),
                    MatchVector(InputAccounts[j].RoleName))}

\* C17: PreferRoles set, any number of AccountProfiles rendering to one
\* name: the section holds the profile that is last in the sorted order
\* among those of the group whose role has the best match vector (the first
\* pattern that matches exactly one of two roles decides between them, and
\* a profile no pattern tells apart from the occupant overwrites it); the
\* profiles that lost are not recorded as duplicates.
C17_BestMatchVectorWins ==
    (Completed /\ opts.PreferRoles # <<>>) =>
        /\ \A i \in AccountIdx :
                (i \in BestOf(i) /\ \A j \in BestOf(i) \ {i} : SortedBefore(j, i))
                    => HoldsRenderingOf(i)
        /\ warnings = <<>>

\* Three profiles render to one name; the one that holds the section is
\* neither the first nor the last processed: it replaced the first on a
\* tie and the last one was skipped.
C17_Witness ==
    /\ Completed
    /\ opts.PreferRoles # <<>>
    /\ \E i, j, k \in AccountIdx :
        /\ {j, k} \subseteq Group(i) /\ Cardinality({i, j, k}) = 3
        /\ SortedBefore(j, i) /\ SortedBefore(i, k)
        /\ j \in BestOf(i)
        /\ k \notin BestOf(i)
        /\ HoldsRenderingOf(i)
        /\ ~HoldsRenderingOf(j) /\ ~HoldsRenderingOf(k)

(***************************************************************************)
(* C18                                                                     *)
(***************************************************************************)

\* The session an input AccountProfile is meant to reference: the one it
\* names, or the implicit one.
IntendedSession(a) ==
    IF a.SSOSessionName # <<>> THEN a.SSOSessionName ELSE ImplicitSessionName(opts)

\* C18: after a completed call in session-reference mode, the sso_session
\* value of every profile section written in the run names an sso-session
\* section of the document, for every prefix, whenever the session the
\* profile is meant to reference was given in the input or synthesized.
C18_SessionReferencesResolve ==
    (Completed /\ opts.NoCredentialProcess) =>
        \A i \in AccountIdx :
            (/\ HoldsRenderingOf(i)
             /\ SessionSection(IntendedSession(InputAccounts[i])) \in RenderedNames)
            => HasSection(config,
                    SessionSection(KeyString(SectionOf(i), "sso_session")))

(***************************************************************************)
(* C19                                                                     *)
(***************************************************************************)

\* The AccountProfiles of the earlier call, the names they rendered to and
\* the keys and values they were rendered with.
EarlierAccounts == SelectSeq(earlier.Profiles, IsAccount)

EarlierName(a) ==
    ProfileSection(
        earlier.Prefix
            \o Execute(EffectiveTemplate(earlier),
                       [a EXCEPT !.AccountName = normalizeAccountName(a.AccountName)]))

EarlierRendering(a) ==
    LET r == WithDefaultRegion(Resolved(a, earlier), earlier)
        entry == ReflectFields(
                    AccountProfile_ToIni(r, Tail(EarlierName(a)),
                                         earlier.NoCredentialProcess))
    IN [j \in 1..Len(entry) |-> KV(entry[j].k, entry[j].v)]

\* The earlier call wrote the section of a and left it in the document.
WrittenEarlier(a) ==
    /\ HasSection(before, EarlierName(a))
    /\ GetSection(before, EarlierName(a)).keys = EarlierRendering(a)

\* C19: a profile section that the earlier call wrote for an AccountProfile
\* with a GeneratedFrom and the start URL u is not in the document after a
\* later call that has u in PruneStartURLs and no input rendering to the
\* name of the section, whatever the mode of the earlier call was.
C19_GeneratedSectionsPrunedLater ==
    (call = "Later" /\ Completed) =>
        \A i \in 1..Len(EarlierAccounts) :
            LET a == EarlierAccounts[i]
            IN (/\ WrittenEarlier(a)
                /\ a.GeneratedFrom # <<>>
                /\ InSlice(opts.PruneStartURLs, a.SSOStartURL)
                /\ EarlierName(a) \notin RenderedNames)
               => ~HasSection(config, EarlierName(a))

====
